---- MODULE Spec2Model ----
(***************************************************************************)
(* k8s-tester configuration tree: environment overrides (parseEnvs,        *)
(* Config.UpdateFromEnvs), persistence (Load, Config.Sync/unsafeSync).     *)
(*                                                                         *)
(* Go strings are TLA+ strings; TLC evaluates Len, Head, Tail, SubSeq and  *)
(* \o on them, so the conversions below work on the characters.            *)
(* Integers are TLC integers: literals are kept below 2^31.                *)
(***************************************************************************)
EXTENDS Integers, Sequences, FiniteSets, TLC

\* ------------------------------------------------------------------------
\* strings
\* ------------------------------------------------------------------------

HasPrefix(s, p) == Len(s) >= Len(p) /\ SubSeq(s, 1, Len(p)) = p

Drop(s, n) == SubSeq(s, n + 1, Len(s))

\* strings.Replace(s, old, new, -1), old non-empty: rep[i] is the result for
\* the part of s from position i on
ReplaceAll(s, old, new) ==
    LET n == Len(s)
        m == Len(old)
        rep[i \in 1..(n + 1)] ==
            IF i > n THEN ""
            ELSE IF i + m - 1 <= n /\ SubSeq(s, i, i + m - 1) = old
                 THEN new \o rep[i + m]
                 ELSE SubSeq(s, i, i) \o rep[i + 1]
    IN  rep[1]

UpperChar(c) ==
    CASE c = "a" -> "A" [] c = "b" -> "B" [] c = "c" -> "C" [] c = "d" -> "D"
      [] c = "e" -> "E" [] c = "f" -> "F" [] c = "g" -> "G" [] c = "h" -> "H"
      [] c = "i" -> "I" [] c = "j" -> "J" [] c = "k" -> "K" [] c = "l" -> "L"
      [] c = "m" -> "M" [] c = "n" -> "N" [] c = "o" -> "O" [] c = "p" -> "P"
      [] c = "q" -> "Q" [] c = "r" -> "R" [] c = "s" -> "S" [] c = "t" -> "T"
      [] c = "u" -> "U" [] c = "v" -> "V" [] c = "w" -> "W" [] c = "x" -> "X"
      [] c = "y" -> "Y" [] c = "z" -> "Z" [] OTHER -> c

\* strings.ToUpper: up[i] is the first i characters, mapped
ToUpper(s) ==
    LET up[i \in 0..Len(s)] ==
            IF i = 0 THEN "" ELSE up[i - 1] \o UpperChar(SubSeq(s, i, i))
    IN  up[Len(s)]

\* strings.Split(s, sep), sep non-empty: the pieces between the separators;
\* pieces[i] is the split of the part of s from position i on
Split(s, sep) ==
    LET n == Len(s)
        m == Len(sep)
        pieces[i \in 1..(n + 1)] ==
            IF i > n THEN <<"">>
            ELSE IF i + m - 1 <= n /\ SubSeq(s, i, i + m - 1) = sep
                 THEN <<"">> \o pieces[i + m]
                 ELSE LET r == pieces[i + 1]
                      IN  <<SubSeq(s, i, i) \o r[1]>> \o Tail(r)
    IN  pieces[1]

\* ------------------------------------------------------------------------
\* strconv, time: the parsers parseEnvs calls. Each returns
\* [ok |-> BOOLEAN, v |-> value].
\* ------------------------------------------------------------------------

Digits == {"0", "1", "2", "3", "4", "5", "6", "7", "8", "9"}

DigitVal(c) ==
    CASE c = "0" -> 0 [] c = "1" -> 1 [] c = "2" -> 2 [] c = "3" -> 3 [] c = "4" -> 4
      [] c = "5" -> 5 [] c = "6" -> 6 [] c = "7" -> 7 [] c = "8" -> 8 [] c = "9" -> 9

RECURSIVE AllDigits(_)
AllDigits(s) == s = "" \/ (Head(s) \in Digits /\ AllDigits(Tail(s)))

RECURSIVE NatAcc(_, _)
NatAcc(s, acc) == IF s = "" THEN acc ELSE NatAcc(Tail(s), acc * 10 + DigitVal(Head(s)))

NatOf(s) == NatAcc(s, 0)

\* the longest prefix of s made of digits
RECURSIVE DigitPrefix(_)
DigitPrefix(s) ==
    IF s = "" \/ Head(s) \notin Digits THEN "" ELSE Head(s) \o DigitPrefix(Tail(s))

\* strconv.ParseBool
ParseBool(s) ==
    IF s \in {"1", "t", "T", "TRUE", "true", "True"} THEN [ok |-> TRUE, v |-> TRUE]
    ELSE IF s \in {"0", "f", "F", "FALSE", "false", "False"} THEN [ok |-> TRUE, v |-> FALSE]
    ELSE [ok |-> FALSE, v |-> FALSE]

\* strconv.ParseUint(s, 10, 64): digits only, no sign
ParseUint(s) ==
    IF s # "" /\ AllDigits(s) THEN [ok |-> TRUE, v |-> NatOf(s)] ELSE [ok |-> FALSE, v |-> 0]

\* strconv.ParseInt(s, 10, 64): an optional sign, then digits
ParseInt(s) ==
    LET neg  == s # "" /\ Head(s) = "-"
        body == IF s # "" /\ Head(s) \in {"+", "-"} THEN Tail(s) ELSE s
        u    == ParseUint(body)
    IN  IF u.ok THEN [ok |-> TRUE, v |-> IF neg THEN 0 - u.v ELSE u.v]
        ELSE [ok |-> FALSE, v |-> 0]

Pow10(n) == CASE n = 0 -> 1 [] n = 1 -> 10 [] n = 2 -> 100 [] n = 3 -> 1000
              [] n = 4 -> 10000 [] n = 5 -> 100000 [] n = 6 -> 1000000
              [] n = 7 -> 10000000 [] n = 8 -> 100000000 [] n = 9 -> 1000000000

\* time.ParseDuration's unit table, in nanoseconds
UnitNames == {"ns", "us", "ms", "s", "m", "h"}

UnitNanos(u) ==
    CASE u = "ns" -> 1 [] u = "us" -> 1000 [] u = "ms" -> 1000000
      [] u = "s" -> 1000000000 [] u = "m" -> 60 * 1000000000
      [] u = "h" -> 3600 * 1000000000

\* the longest prefix of s holding neither '.' nor a digit: a unit
RECURSIVE UnitPrefix(_)
UnitPrefix(s) ==
    IF s = "" \/ Head(s) = "." \/ Head(s) \in Digits THEN ""
    ELSE Head(s) \o UnitPrefix(Tail(s))

\* time.ParseDuration after the sign: ([0-9]*(\.[0-9]*)?[a-z]+)+
RECURSIVE DurationGroups(_, _)
DurationGroups(s, acc) ==
    IF s = "" THEN [ok |-> TRUE, v |-> acc]
    ELSE
      LET ip    == DigitPrefix(s)
          r1    == Drop(s, Len(ip))
          dot   == r1 # "" /\ Head(r1) = "."
          fp    == IF dot THEN DigitPrefix(Tail(r1)) ELSE ""
          r2    == IF dot THEN Drop(r1, 1 + Len(fp)) ELSE r1
          un    == UnitPrefix(r2)
          r3    == Drop(r2, Len(un))
      IN  IF ip = "" /\ fp = "" THEN [ok |-> FALSE, v |-> 0]
          ELSE IF un \notin UnitNames THEN [ok |-> FALSE, v |-> 0]
          ELSE DurationGroups(r3,
                 acc + NatOf(ip) * UnitNanos(un)
                     + (NatOf(fp) * (UnitNanos(un) \div Pow10(Len(fp)))))

\* time.ParseDuration
ParseDuration(s) ==
    LET neg  == s # "" /\ Head(s) = "-"
        body == IF s # "" /\ Head(s) \in {"+", "-"} THEN Tail(s) ELSE s
        d    == DurationGroups(body, 0)
    IN  IF body = "0" THEN [ok |-> TRUE, v |-> 0]
        ELSE IF body = "" \/ ~d.ok THEN [ok |-> FALSE, v |-> 0]
        ELSE [ok |-> TRUE, v |-> IF neg THEN 0 - d.v ELSE d.v]

\* strconv.ParseFloat(s, 64) on plain decimal literals: an optional sign, digits
\* with an optional '.', at least one digit. The value m / 10^e is kept exactly;
\* r32 marks a value rounded to float32 that float32 does not hold exactly.
RECURSIVE StripZeros(_, _)
StripZeros(m, e) == IF e > 0 /\ m % 10 = 0 THEN StripZeros(m \div 10, e - 1) ELSE [m |-> m, e |-> e]

ParseFloat(s) ==
    LET neg  == s # "" /\ Head(s) = "-"
        body == IF s # "" /\ Head(s) \in {"+", "-"} THEN Tail(s) ELSE s
        ip   == DigitPrefix(body)
        r1   == Drop(body, Len(ip))
        dot  == r1 # "" /\ Head(r1) = "."
        fp   == IF dot THEN DigitPrefix(Tail(r1)) ELSE ""
        r2   == IF dot THEN Drop(r1, 1 + Len(fp)) ELSE r1
        n    == StripZeros(NatOf(ip \o fp), Len(fp))
    IN  IF (ip = "" /\ fp = "") \/ r2 # "" THEN [ok |-> FALSE, v |-> [m |-> 0, e |-> 0, r32 |-> FALSE]]
        ELSE [ok |-> TRUE, v |-> [m |-> IF neg THEN 0 - n.m ELSE n.m, e |-> n.e, r32 |-> FALSE]]

RECURSIVE Pow5(_)
Pow5(n) == IF n = 0 THEN 1 ELSE 5 * Pow5(n - 1)

\* reflect.Value.SetFloat on a float32 field stores float32(x): x itself when
\* m / 10^e is a dyadic fraction a float32 mantissa holds, a rounded value otherwise
Float32Of(x) ==
    IF x.m % Pow5(x.e) = 0 /\ x.m < 16777216 /\ x.m > -16777216 THEN x
    ELSE [x EXCEPT !.r32 = TRUE]

\* ------------------------------------------------------------------------
\* encoding/json: json.Unmarshal([]byte(sv), &mm) with mm a map[string]string.
\* Strings without escape sequences.
\* ------------------------------------------------------------------------

RECURSIVE SkipWs(_)
SkipWs(s) == IF s # "" /\ Head(s) = " " THEN SkipWs(Tail(s)) ELSE s

\* the characters up to the closing quote, s being what follows the opening one
RECURSIVE StringBody(_)
StringBody(s) ==
    IF s = "" \/ Head(s) = "\\" THEN [ok |-> FALSE, v |-> "", rest |-> ""]
    ELSE IF Head(s) = "\"" THEN [ok |-> TRUE, v |-> "", rest |-> Tail(s)]
    ELSE LET r == StringBody(Tail(s)) IN [r EXCEPT !.v = Head(s) \o r.v]

\* a member value a string element accepts: a string, or null (the zero string)
JSONElem(s) ==
    IF s # "" /\ Head(s) = "\"" THEN StringBody(Tail(s))
    ELSE IF HasPrefix(s, "null") THEN [ok |-> TRUE, v |-> "", rest |-> Drop(s, 4)]
    ELSE [ok |-> FALSE, v |-> "", rest |-> ""]

\* the members after '{' or ',': "key" : value , ... }
RECURSIVE JSONMembers(_, _)
JSONMembers(s, acc) ==
    LET s1 == SkipWs(s)
        k  == IF s1 # "" /\ Head(s1) = "\"" THEN StringBody(Tail(s1))
              ELSE [ok |-> FALSE, v |-> "", rest |-> ""]
        s2 == SkipWs(k.rest)
        el == IF s2 # "" /\ Head(s2) = ":" THEN JSONElem(SkipWs(Tail(s2)))
              ELSE [ok |-> FALSE, v |-> "", rest |-> ""]
        s3 == SkipWs(el.rest)
        kv == (k.v :> el.v) @@ acc
    IN  IF ~k.ok \/ ~el.ok \/ s3 = "" THEN [ok |-> FALSE, kv |-> <<>>]
        ELSE IF Head(s3) = "}" THEN [ok |-> SkipWs(Tail(s3)) = "", kv |-> kv]
        ELSE IF Head(s3) = "," THEN JSONMembers(Tail(s3), kv)
        ELSE [ok |-> FALSE, kv |-> <<>>]

\* mm after the members of an object were decoded into it
MapFrom(r) == [ok |-> r.ok, mm |-> [isNil |-> FALSE, kv |-> r.kv]]

\* json.Unmarshal into the empty map mm: null sets mm to the nil map and is no
\* error; an object fills mm; any other document, or a syntax error, is an error
UnmarshalMap(sv) ==
    LET s == SkipWs(sv)
    IN  IF HasPrefix(s, "null") /\ SkipWs(Drop(s, 4)) = ""
        THEN [ok |-> TRUE, mm |-> [isNil |-> TRUE, kv |-> <<>>]]
        ELSE IF s # "" /\ Head(s) = "{"
             THEN IF HasPrefix(SkipWs(Tail(s)), "}")
                  THEN MapFrom([ok |-> SkipWs(Tail(SkipWs(Tail(s)))) = "", kv |-> <<>>])
                  ELSE MapFrom(JSONMembers(Tail(s), <<>>))
        ELSE MapFrom([ok |-> FALSE, kv |-> <<>>])

\* ------------------------------------------------------------------------
\* records and their structural metadata (reflect.Type / reflect.Value)
\* ------------------------------------------------------------------------

\* EnvKey without the replacement of '-' by '_'
EnvKeyDashKept(jv) == ToUpper(ReplaceAll(jv, ",omitempty", ""))

\* the variable's name after the prefix, from the json tag
EnvKey(jv) == ToUpper(ReplaceAll(ReplaceAll(jv, ",omitempty", ""), "-", "_"))

\* the key of a json tag, and its omitempty option
JsonName(tag) == Split(tag, ",")[1]

OmitEmpty(tag) == \E i \in 2..Len(Split(tag, ",")) : Split(tag, ",")[i] = "omitempty"

\* One struct field: Go name, `json` tag, reflect.Kind, type name, `read-only`
\* tag; and what the tag gives, once per type: env (the variable's name after
\* the prefix), key and omit (the document key and its omitempty option).
Field(name, json, kind, type, readOnly) ==
    [name |-> name, json |-> json, kind |-> kind, type |-> type, readOnly |-> readOnly,
     env |-> EnvKey(json), key |-> JsonName(json), omit |-> OmitEmpty(json)]

\* a pointer: nil, or the address of a record
NilPtr == [isNil |-> TRUE]

PtrTo(rec) == [isNil |-> FALSE, v |-> rec]

\* a []string and a map[string]string: nil differs from empty
NilSlice == [isNil |-> TRUE, elems |-> <<>>]

SliceOf(elems) == [isNil |-> FALSE, elems |-> elems]

NilMap == [isNil |-> TRUE, kv |-> <<>>]

MapOf(kv) == [isNil |-> FALSE, kv |-> kv]

\* the error values parseEnvs builds with fmt.Errorf, by their arguments
NoErr == [kind |-> "nil"]

ReadOnlyErr(envName, sv) == [kind |-> "read-only", env |-> envName, sv |-> sv]

ParseErr(sv, fieldName, envName) ==
    [kind |-> "failed-to-parse", sv |-> sv, field |-> fieldName, env |-> envName]

MapKindErr(fieldName) == [kind |-> "map-not-supported", field |-> fieldName]

\* a run-time panic: the call does not return
Panic == [kind |-> "panic"]

\* ------------------------------------------------------------------------
\* parseEnvs
\* ------------------------------------------------------------------------

\* os.Getenv: "" for an unset variable
Getenv(e, name) == IF name \in DOMAIN e THEN e[name] ELSE ""

\* SkipsValue without the test for the empty value
SkipsNothing(sv) == FALSE

\* `if sv == "" { continue }`
SkipsValue(sv) == sv = ""

\* no field is treated as read-only
ReadOnlyIgnored(f) == FALSE

\* tp.Field(i).Tag.Get("read-only") == "true"
IsReadOnly(f) == f.readOnly

\* the field names the reflect.Map case accepts
MapFieldNames == {"Tags", "NodeSelector", "DeploymentNodeSelector", "DeploymentNodeSelector2048"}

\* `if err != nil { return fmt.Errorf("failed to parse ...") }`, then the
\* Set call: r is what the strconv function returned
SetParsed(f, old, sv, envName, r) ==
    IF r.ok THEN [v |-> r.v, err |-> NoErr]
    ELSE [v |-> old, err |-> ParseErr(sv, f.name, envName)]

\* case reflect.Int, reflect.Int32, reflect.Int64. SetInt keeps the low bits of
\* the field's width; every value the model parses lies within int32.
SetIntKind(f, old, sv, envName) ==
    SetParsed(f, old, sv, envName,
              IF f.type = "Duration" THEN ParseDuration(sv) ELSE ParseInt(sv))

\* SetFloat on the parsed value: a float32 field keeps the float32 nearest to it
SetFloat(f, r) ==
    IF r.ok /\ f.kind = "Float32" THEN [ok |-> TRUE, v |-> Float32Of(r.v)] ELSE r

\* a slice that grows: the pieces are appended to the elements the field holds
SetSliceKindAppend(f, old, sv, envName) ==
    [v |-> SliceOf(old.elems \o Split(sv, ",")), err |-> NoErr]

\* case reflect.Slice
SetSliceKind(f, old, sv, envName) ==
    LET ss == Split(sv, ",")
    IN  IF Len(ss) < 1 THEN [v |-> old, err |-> NoErr]
        ELSE [v |-> SliceOf(ss), err |-> NoErr]

\* the map after json.Unmarshal returned r: the field was set to an empty map
\* before the call
SetUnmarshalled(f, sv, envName, r) ==
    IF r.ok THEN [v |-> r.mm, err |-> NoErr]
    ELSE [v |-> MapOf(<<>>), err |-> ParseErr(sv, f.name, envName)]

\* case reflect.Map: the field is set to an empty map, then json.Unmarshal runs
SetMapKind(f, old, sv, envName) ==
    IF f.name \in MapFieldNames THEN SetUnmarshalled(f, sv, envName, UnmarshalMap(sv))
    ELSE [v |-> old, err |-> MapKindErr(f.name)]

\* the switch on vv.Field(i).Type().Kind(): the field's new value and the error
SetByKind(f, old, sv, envName) ==
    CASE f.kind = "String" -> [v |-> sv, err |-> NoErr]
      [] f.kind = "Bool" -> SetParsed(f, old, sv, envName, ParseBool(sv))
      [] f.kind \in {"Int", "Int32", "Int64"} -> SetIntKind(f, old, sv, envName)
      [] f.kind \in {"Uint", "Uint32", "Uint64"} ->
           SetParsed(f, old, sv, envName, ParseUint(sv))
      [] f.kind \in {"Float32", "Float64"} ->
           SetParsed(f, old, sv, envName, SetFloat(f, ParseFloat(sv)))
      [] f.kind = "Slice" -> SetSliceKind(f, old, sv, envName)
      [] f.kind = "Map" -> SetMapKind(f, old, sv, envName)
      [] OTHER -> [v |-> old, err |-> NoErr]

\* the record after the switch returned r for field f
FieldSet(f, addOn, r) == [addOn |-> [addOn EXCEPT !.v[f.name] = r.v], err |-> r.err]

\* the body of the loop once the variable's value sv is read
ParseValue(f, addOn, envName, sv) ==
    IF f.json = "" \/ SkipsValue(sv) THEN [addOn |-> addOn, err |-> NoErr]
    ELSE IF IsReadOnly(f) THEN [addOn |-> addOn, err |-> ReadOnlyErr(envName, sv)]
    ELSE IF addOn.isNil THEN [addOn |-> addOn, err |-> Panic]
    ELSE FieldSet(f, addOn, SetByKind(f, addOn.v[f.name], sv, envName))

\* one iteration of the loop over the fields: addOn is the pointer passed in,
\* the result is what it points to afterwards and the error that ends the loop
ParseField(pfx, f, addOn, e) == ParseValue(f, addOn, pfx \o f.env, Getenv(e, pfx \o f.env))

\* the loop from field i on
RECURSIVE ParseFrom(_, _, _, _, _)
\* after iteration i returned r: an error ends the loop
NextField(pfx, tp, e, i, r) ==
    IF r.err # NoErr THEN r ELSE ParseFrom(pfx, tp, r.addOn, e, i + 1)

ParseFrom(pfx, tp, addOn, e, i) ==
    IF i > Len(tp) THEN [addOn |-> addOn, err |-> NoErr]
    ELSE NextField(pfx, tp, e, i, ParseField(pfx, tp[i], addOn, e))

\* parseEnvs(pfx, addOn): tp is addOn's struct type
parseEnvs(pfx, tp, addOn, e) == ParseFrom(pfx, tp, addOn, e, 1)

\* ------------------------------------------------------------------------
\* a record with one field of every kind parseEnvs meets, and its inputs
\* ------------------------------------------------------------------------

\* ENV_PREFIX
ENV_PREFIX == "K8S_TESTER_"

\* The record's struct type, in declaration order: it opens as Config does (mu,
\* Stopc, Prompt, ClusterName) and goes on with a field of every other kind.
RecordSchema ==
    << Field("mu",          "-",                  "Ptr",     "RWMutex",  FALSE),
       Field("Stopc",       "-",                  "Chan",    "chan",     FALSE),
       Field("lg",          "",                   "Ptr",     "Logger",   FALSE),
       Field("Prompt",      "prompt",             "Bool",    "bool",     FALSE),
       Field("ClusterName", "cluster_name",       "String",  "string",   FALSE),
       Field("Completes",   "completes",          "Int",     "int",      FALSE),
       Field("Retries",     "retries",            "Int8",    "int8",     FALSE),
       Field("Replicas",    "replicas,omitempty", "Int32",   "int32",    FALSE),
       Field("Timeout",     "timeout",            "Int64",   "Duration", FALSE),
       Field("Size",        "size",               "Uint64",  "uint64",   FALSE),
       Field("Port",        "port",               "Uint16",  "uint16",   FALSE),
       Field("Ratio",       "ratio",              "Float64", "float64",  FALSE),
       Field("Weight",      "weight",             "Float32", "float32",  FALSE),
       Field("LogOutputs",  "log-outputs",        "Slice",   "[]string", FALSE),
       Field("Tags",        "tags",               "Map",     "map[string]string", FALSE),
       Field("Labels",      "labels",             "Map",     "map[string]string", FALSE),
       Field("TotalNodes",  "total_nodes",        "Int",     "int",      TRUE),
       Field("Image",       "image",              "String",  "string",   FALSE) >>

RecordFieldNames == {RecordSchema[i].name : i \in 1..Len(RecordSchema)}

\* the record with every field at its zero value
RecordZero ==
    [mu |-> NilPtr, Stopc |-> NilPtr, lg |-> NilPtr, Prompt |-> FALSE, ClusterName |-> "",
     Completes |-> 0, Retries |-> 0, Replicas |-> 0, Timeout |-> 0, Size |-> 0, Port |-> 0,
     Ratio |-> [m |-> 0, e |-> 0, r32 |-> FALSE], Weight |-> [m |-> 0, e |-> 0, r32 |-> FALSE],
     LogOutputs |-> NilSlice, Tags |-> NilMap, Labels |-> NilMap, TotalNodes |-> 0,
     Image |-> ""]

\* the record as a constructor and the install logic leave it
RecordSet ==
    [mu |-> NilPtr, Stopc |-> NilPtr, lg |-> NilPtr, Prompt |-> TRUE,
     ClusterName |-> "k8s-2021-abc", Completes |-> 30, Retries |-> 2, Replicas |-> 3,
     Timeout |-> 1000000000, Size |-> 8, Port |-> 80,
     Ratio |-> [m |-> 5, e |-> 1, r32 |-> FALSE], Weight |-> [m |-> 2, e |-> 0, r32 |-> FALSE],
     LogOutputs |-> SliceOf(<<"stderr">>), Tags |-> MapOf("k" :> "v"),
     Labels |-> MapOf("l" :> "w"), TotalNodes |-> 4, Image |-> "busybox"]

InitRecords == {PtrTo(RecordZero), PtrTo(RecordSet)}

\* The environment entries tried on the record. Each names the variable, the
\* value, the field the variable is for, and lit: what the field is to hold
\* when the value is a valid literal for it (absent when it is not).
Entry(name, value, field) == [name |-> name, value |-> value, field |-> field, valid |-> FALSE]

Valid(name, value, field, lit) ==
    [name |-> name, value |-> value, field |-> field, valid |-> TRUE, lit |-> lit]

RecordEntries ==
    { Valid("K8S_TESTER_PROMPT", "false", "Prompt", FALSE),
      Valid("K8S_TESTER_PROMPT", "T", "Prompt", TRUE),
      Entry("K8S_TESTER_PROMPT", "yes", "Prompt"),
      Entry("K8S_TESTER_PROMPT", "", "Prompt"),
      Valid("K8S_TESTER_CLUSTER_NAME", "mycluster", "ClusterName", "mycluster"),
      Entry("K8S_TESTER_CLUSTER_NAME", "", "ClusterName"),
      Valid("K8S_TESTER_COMPLETES", "-12", "Completes", -12),
      Entry("K8S_TESTER_COMPLETES", "abc", "Completes"),
      Valid("K8S_TESTER_RETRIES", "7", "Retries", 7),
      Valid("K8S_TESTER_REPLICAS", "10", "Replicas", 10),
      Entry("K8S_TESTER_REPLICAS", "1.5", "Replicas"),
      Valid("K8S_TESTER_TIMEOUT", "1s5ms", "Timeout", 1005000000),
      Entry("K8S_TESTER_TIMEOUT", "5", "Timeout"),
      Valid("K8S_TESTER_SIZE", "42", "Size", 42),
      Entry("K8S_TESTER_SIZE", "-1", "Size"),
      Valid("K8S_TESTER_PORT", "443", "Port", 443),
      Valid("K8S_TESTER_RATIO", "0.25", "Ratio", [m |-> 25, e |-> 2, r32 |-> FALSE]),
      Entry("K8S_TESTER_RATIO", "1.5x", "Ratio"),
      Valid("K8S_TESTER_WEIGHT", "1.5", "Weight", [m |-> 15, e |-> 1, r32 |-> FALSE]),
      Valid("K8S_TESTER_LOG_OUTPUTS", "stderr,a.log", "LogOutputs",
            SliceOf(<<"stderr", "a.log">>)),
      Valid("K8S_TESTER_LOG_OUTPUTS", ",", "LogOutputs", SliceOf(<<"", "">>)),
      Entry("K8S_TESTER_LOG_OUTPUTS", "", "LogOutputs"),
      Valid("K8S_TESTER_TAGS", "{\"a\":\"b\"}", "Tags", MapOf("a" :> "b")),
      Entry("K8S_TESTER_TAGS", "a=b", "Tags"),
      Entry("K8S_TESTER_TAGS", "null", "Tags"),
      Entry("K8S_TESTER_TAGS", "", "Tags"),
      Entry("K8S_TESTER_LABELS", "{\"a\":\"b\"}", "Labels"),
      Entry("K8S_TESTER_TOTAL_NODES", "5", "TotalNodes"),
      Entry("K8S_TESTER_TOTAL_NODES", "", "TotalNodes"),
      Valid("K8S_TESTER_IMAGE", "nginx", "Image", "nginx"),
      Entry("K8S_TESTER__", "x", "mu") }

\* the variable of each field of the record ("" for a field with no json tag;
\* mu and Stopc share the tag "-")
RecordVar(fieldName) ==
    CASE fieldName = "lg" -> ""
      [] fieldName \in {"mu", "Stopc"} -> "K8S_TESTER__"
      [] OTHER -> (CHOOSE x \in RecordEntries : x.field = fieldName).name

\* ------------------------------------------------------------------------
\* path/filepath, on '/'-separated paths
\* ------------------------------------------------------------------------

\* os.Getwd
Cwd == "/w"

\* filepath.IsAbs
IsAbs(p) == p # "" /\ Head(p) = "/"

\* the elements of a path, walked as filepath.Clean walks them: an empty element
\* and "." are dropped, ".." removes the element before it, is dropped at the
\* root and is kept at the start of a relative path
RECURSIVE CleanElems(_, _, _)
CleanElems(elems, out, rooted) ==
    IF elems = <<>> THEN out
    ELSE LET x == Head(elems)
         IN  CleanElems(Tail(elems),
                 IF x \in {"", "."} THEN out
                 ELSE IF x = ".."
                      THEN IF out # <<>> /\ out[Len(out)] # ".." THEN SubSeq(out, 1, Len(out) - 1)
                           ELSE IF rooted THEN out ELSE Append(out, x)
                 ELSE Append(out, x),
                 rooted)

RECURSIVE JoinElems(_)
JoinElems(elems) ==
    IF elems = <<>> THEN ""
    ELSE IF Len(elems) = 1 THEN elems[1]
    ELSE elems[1] \o "/" \o JoinElems(Tail(elems))

\* filepath.Clean
Clean(p) ==
    LET body == JoinElems(CleanElems(Split(p, "/"), <<>>, IsAbs(p)))
    IN  IF IsAbs(p) THEN "/" \o body
        ELSE IF body = "" THEN "." ELSE body

\* filepath.Abs: Clean(p) for an absolute path, Join(cwd, p) otherwise
Abs(p) == IF IsAbs(p) THEN Clean(p) ELSE Clean(Cwd \o "/" \o p)

\* filepath.Dir of a cleaned absolute path
RECURSIVE DirOf(_)
DirOf(p) ==
    IF p = "" THEN "/"
    ELSE IF SubSeq(p, Len(p), Len(p)) = "/" THEN (IF Len(p) = 1 THEN "/" ELSE SubSeq(p, 1, Len(p) - 1))
    ELSE DirOf(SubSeq(p, 1, Len(p) - 1))

\* ------------------------------------------------------------------------
\* the file system: files maps the cleaned absolute path of each regular file
\* to its content; Dirs are the directories that exist
\* ------------------------------------------------------------------------

Dirs == {"/", "/w"}

\* the files the process may read but not write (mode 0400, another owner)
ReadOnlyFiles == {"/w/ro.yaml"}

\* the file a path names: the kernel resolves it against the working directory
Resolve(p) == Abs(p)

\* ioutil.ReadFile
ReadFile(fs, p) ==
    IF p # "" /\ Resolve(p) \in DOMAIN fs THEN [ok |-> TRUE, d |-> fs[Resolve(p)]]
    ELSE [ok |-> FALSE, d |-> <<>>]

\* ioutil.WriteFile(p, d, 0600): it creates or replaces the file when the
\* directory exists, the path is not a directory and the file may be written
WriteFile(fs, p, d) ==
    IF p # "" /\ DirOf(Resolve(p)) \in Dirs /\ Resolve(p) \notin Dirs
       /\ Resolve(p) \notin ReadOnlyFiles
    THEN [ok |-> TRUE, fs |-> (Resolve(p) :> d) @@ fs]
    ELSE [ok |-> FALSE, fs |-> fs]

\* ------------------------------------------------------------------------
\* Config and the addon records
\* ------------------------------------------------------------------------

\* type Config struct, in declaration order
ConfigSchema ==
    << Field("mu",                 "-",                    "Ptr",    "sync.RWMutex", FALSE),
       Field("Stopc",              "-",                    "Chan",   "chan",         FALSE),
       Field("Prompt",             "prompt",               "Bool",   "bool",         FALSE),
       Field("ClusterName",        "cluster_name",         "String", "string",       FALSE),
       Field("ConfigPath",         "config_path",          "String", "string",       FALSE),
       Field("LogColor",           "log_color",            "Bool",   "bool",         FALSE),
       Field("LogColorOverride",   "log_color_override",   "String", "string",       FALSE),
       Field("LogLevel",           "log-level",            "String", "string",       FALSE),
       Field("LogOutputs",         "log-outputs",          "Slice",  "[]string",     FALSE),
       Field("KubectlDownloadURL", "kubectl-download-url", "String", "string",       FALSE),
       Field("KubectlPath",        "kubectl_path",         "String", "string",       FALSE),
       Field("KubeconfigPath",     "kubeconfig_path",      "String", "string",       FALSE),
       Field("KubeconfigContext",  "kubeconfig_context",   "String", "string",       FALSE),
       Field("MinimumNodes",       "minimum_nodes",        "Int",    "int",          FALSE),
       Field("TotalNodes",         "total_nodes",          "Int",    "int",          TRUE),
       Field("AddOnCloudwatchAgent", "add_on_cloudwatch_agent", "Ptr", "cloudwatch_agent.Config", FALSE),
       Field("AddOnMetricsServer", "add_on_metrics_server", "Ptr",   "metrics_server.Config", FALSE),
       Field("AddOnFluentBit",     "add_on_fluent_bit",    "Ptr",    "fluent_bit.Config", FALSE),
       Field("AddOnKubernetesDashboard", "add_on_kubernetes_dashboard", "Ptr", "kubernetes_dashboard.Config", FALSE),
       Field("AddOnNLBHelloWorld", "add_on_nlb_hello_world", "Ptr",  "nlb_hello_world.Config", FALSE),
       Field("AddOnJobsPi",        "add_on_jobs_pi",       "Ptr",    "jobs_pi.Config", FALSE),
       Field("AddOnJobsEcho",      "add_on_jobs_echo",     "Ptr",    "jobs_echo.Config", FALSE),
       Field("AddOnCronJobsEcho",  "add_on_cron_jobs_echo", "Ptr",   "jobs_echo.Config", FALSE) >>

\* the addon slots in the order UpdateFromEnvs walks them
AddOnOrder ==
    << "AddOnCloudwatchAgent", "AddOnMetricsServer", "AddOnFluentBit",
       "AddOnKubernetesDashboard", "AddOnNLBHelloWorld", "AddOnJobsPi", "AddOnJobsEcho",
       "AddOnCronJobsEcho" >>

AddOnSlots == {AddOnOrder[i] : i \in 1..Len(AddOnOrder)}

\* cloudwatch_agent.Env(), ..., jobs_echo.Env("CronJob"): each addon's prefix
AddOnEnv(slot) ==
    CASE slot = "AddOnCloudwatchAgent" -> "CLOUDWATCH_AGENT"
      [] slot = "AddOnMetricsServer" -> "METRICS_SERVER"
      [] slot = "AddOnFluentBit" -> "FLUENT_BIT"
      [] slot = "AddOnKubernetesDashboard" -> "KUBERNETES_DASHBOARD"
      [] slot = "AddOnNLBHelloWorld" -> "NLB_HELLO_WORLD"
      [] slot = "AddOnJobsPi" -> "JOBS_PI"
      [] slot = "AddOnJobsEcho" -> "JOBS_ECHO"
      [] slot = "AddOnCronJobsEcho" -> "CRON_JOBS_ECHO"

\* every addon record: an injected handle that is not persisted, an enable flag
AddOnCommon ==
    << Field("Logger", "-",      "Ptr",  "zap.Logger", FALSE),
       Field("Enable", "enable", "Bool", "bool",       FALSE) >>

NLBHelloWorldSchema ==
    AddOnCommon \o << Field("DeploymentNodeSelector", "deployment_node_selector",
                            "Map", "map[string]string", FALSE) >>

JobsPiSchema == AddOnCommon \o << Field("Completes", "completes", "Int32", "int32", FALSE) >>

JobsEchoSchema == AddOnCommon \o << Field("JobType", "job_type", "String", "string", TRUE) >>

\* the struct type of each addon record
AddOnSchema(slot) ==
    CASE slot = "AddOnNLBHelloWorld" -> NLBHelloWorldSchema
      [] slot = "AddOnJobsPi" -> JobsPiSchema
      [] slot \in {"AddOnJobsEcho", "AddOnCronJobsEcho"} -> JobsEchoSchema
      [] OTHER -> AddOnCommon

\* the struct type a pointer field of Config points to
SchemaOf(slot) == IF slot \in AddOnSlots THEN AddOnSchema(slot) ELSE <<>>

FieldNames(tp) == {tp[i].name : i \in 1..Len(tp)}

FieldOf(tp, name) == tp[CHOOSE i \in 1..Len(tp) : tp[i].name = name]

\* the zero value of a field
ZeroValue(f) ==
    CASE f.kind = "String" -> ""
      [] f.kind = "Bool" -> FALSE
      [] f.kind \in {"Float32", "Float64"} -> [m |-> 0, e |-> 0, r32 |-> FALSE]
      [] f.kind = "Slice" -> NilSlice
      [] f.kind = "Map" -> NilMap
      [] f.kind \in {"Ptr", "Chan"} -> NilPtr
      [] OTHER -> 0

\* new(T): every field at its zero value
ZeroOf(tp) == [n \in FieldNames(tp) |-> ZeroValue(FieldOf(tp, n))]

\* cloudwatch_agent.NewDefault(), ..., jobs_echo.NewDefault("CronJob")
AddOnDefault(slot) ==
    [n \in FieldNames(AddOnSchema(slot)) |->
        CASE n = "Completes" -> 30
          [] n = "JobType" -> IF slot = "AddOnCronJobsEcho" THEN "CronJob" ELSE "Job"
          [] n = "DeploymentNodeSelector" -> MapOf("kubernetes.io/os" :> "linux")
          [] OTHER -> ZeroValue(FieldOf(AddOnSchema(slot), n))]

DefaultMinimumNodes == 1

\* the name NewDefault generates from the time and a random suffix
GeneratedName == "k8s-2021051800-abcdefghijkl"

\* NewDefault()
NewDefault(e) ==
    [n \in FieldNames(ConfigSchema) |->
        CASE n = "mu" -> PtrTo("RWMutex")
          [] n = "Prompt" -> TRUE
          [] n = "ClusterName" ->
               IF Getenv(e, ENV_PREFIX \o "CLUSTER_NAME") # ""
               THEN Getenv(e, ENV_PREFIX \o "CLUSTER_NAME") ELSE GeneratedName
          [] n = "LogColor" -> TRUE
          [] n = "LogLevel" -> "info"
          [] n = "LogOutputs" -> SliceOf(<<"stderr">>)
          [] n = "KubectlPath" -> "/tmp/kubectl-test-v1.21.0"
          [] n = "KubectlDownloadURL" ->
               "https://storage.googleapis.com/kubernetes-release/release/v1.21.0/bin/linux/amd64/kubectl"
          [] n = "MinimumNodes" -> DefaultMinimumNodes
          [] n \in AddOnSlots -> PtrTo(AddOnDefault(n))
          [] OTHER -> ZeroValue(FieldOf(ConfigSchema, n))]

\* ------------------------------------------------------------------------
\* UpdateFromEnvs
\* ------------------------------------------------------------------------

\* the addon passes from slot i on: each runs parseEnvs on the slot's pointer;
\* what the pass wrote stays written when it returns an error
RECURSIVE UpdateAddOns(_, _, _, _)
\* after the pass on slot i returned r
NextAddOn(order, c, e, i, r) ==
    IF r.err # NoErr THEN [cfg |-> [c EXCEPT ![order[i]] = r.addOn], err |-> r.err]
    ELSE UpdateAddOns(order, [c EXCEPT ![order[i]] = r.addOn], e, i + 1)

UpdateAddOns(order, c, e, i) ==
    IF i > Len(order) THEN [cfg |-> c, err |-> NoErr]
    ELSE NextAddOn(order, c, e, i,
                   parseEnvs(ENV_PREFIX \o AddOnEnv(order[i]) \o "_", AddOnSchema(order[i]),
                             c[order[i]], e))

\* after the pass on the root returned r
AfterRoot(e, r) ==
    IF r.err # NoErr THEN [cfg |-> r.addOn.v, err |-> r.err]
    ELSE UpdateAddOns(AddOnOrder, r.addOn.v, e, 1)

\* cfg.UpdateFromEnvs(): the root under ENV_PREFIX, then the addon slots
UpdateFromEnvs(c, e) == AfterRoot(e, parseEnvs(ENV_PREFIX, ConfigSchema, PtrTo(c), e))

\* ------------------------------------------------------------------------
\* yaml.Marshal / yaml.Unmarshal with DisallowUnknownFields. A document maps
\* each key to a tagged value: [str], [bool], [num], [float], [seq], [obj],
\* [doc] for a nested record, [null].
\* ------------------------------------------------------------------------

\* whether a document holds the field: it has a key (the untagged fields of
\* these records are unexported)
Persisted(f) == f.json \notin {"", "-"}

IsEmptyValue(f, v) ==
    CASE f.kind = "Slice" -> Len(v.elems) = 0
      [] f.kind = "Map" -> v.kv = <<>>
      [] f.kind \in {"Ptr", "Chan"} -> v.isNil
      [] OTHER -> v = ZeroValue(f)

RECURSIVE MarshalFrom(_, _, _, _)
EncodeValue(f, v) ==
    CASE f.kind = "String" -> [str |-> v]
      [] f.kind = "Bool" -> [bool |-> v]
      [] f.kind \in {"Float32", "Float64"} -> [float |-> v]
      [] f.kind = "Slice" -> IF v.isNil THEN [null |-> TRUE] ELSE [seq |-> v.elems]
      [] f.kind = "Map" -> IF v.isNil THEN [null |-> TRUE] ELSE [obj |-> v.kv]
      [] f.kind = "Ptr" -> IF v.isNil THEN [null |-> TRUE]
                           ELSE [doc |-> MarshalFrom(SchemaOf(f.name), v.v, 1, <<>>)]
      [] OTHER -> [num |-> v]

\* the document of the fields from i on, added to doc
MarshalFrom(tp, r, i, doc) ==
    IF i > Len(tp) THEN doc
    ELSE IF ~Persisted(tp[i]) \/ (tp[i].omit /\ IsEmptyValue(tp[i], r[tp[i].name]))
         THEN MarshalFrom(tp, r, i + 1, doc)
    ELSE MarshalFrom(tp, r, i + 1, (tp[i].key :> EncodeValue(tp[i], r[tp[i].name])) @@ doc)

Marshal(tp, r) == MarshalFrom(tp, r, 1, <<>>)

\* the tag a value of the field's kind carries in a document
TagOf(f) ==
    CASE f.kind = "String" -> "str"
      [] f.kind = "Bool" -> "bool"
      [] f.kind \in {"Float32", "Float64"} -> "float"
      [] f.kind = "Slice" -> "seq"
      [] f.kind = "Map" -> "obj"
      [] f.kind = "Ptr" -> "doc"
      [] OTHER -> "num"

DecodeErr(what) == [kind |-> "unmarshal", what |-> what]

\* a decoder that accepts every key
UnknownKeyAllowed(tp, doc) == FALSE

\* the keys of a struct type
KeysFrom(tp) == {tp[i].key : i \in {j \in 1..Len(tp) : Persisted(tp[j])}}

\* DisallowUnknownFields: a key the struct type does not have
UnknownKey(tp, doc) == \E k \in DOMAIN doc : k \notin KeysFrom(tp)

RECURSIVE UnmarshalFrom(_, _, _, _)
\* a nested record: the pointer to what the section decoded to
DecodePtr(r) == IF r.ok THEN [ok |-> TRUE, v |-> PtrTo(r.v)] ELSE [ok |-> FALSE, v |-> NilPtr]

\* a section decoded into new(T) of the pointer's type
DecodeDoc(tp, doc) ==
    IF UnknownKey(tp, doc) THEN [ok |-> FALSE, v |-> <<>>]
    ELSE UnmarshalFrom(tp, doc, 1, ZeroOf(tp))

DecodeValue(f, x) ==
    IF DOMAIN x = {"null"} THEN [ok |-> TRUE, v |-> ZeroValue(f)]
    ELSE IF DOMAIN x # {TagOf(f)} THEN [ok |-> FALSE, v |-> ZeroValue(f)]
    ELSE CASE f.kind = "String" -> [ok |-> TRUE, v |-> x.str]
           [] f.kind = "Bool" -> [ok |-> TRUE, v |-> x.bool]
           [] f.kind \in {"Float32", "Float64"} -> [ok |-> TRUE, v |-> x.float]
           [] f.kind = "Slice" -> [ok |-> TRUE, v |-> SliceOf(x.seq)]
           [] f.kind = "Map" -> [ok |-> TRUE, v |-> MapOf(x.obj)]
           [] f.kind = "Ptr" -> DecodePtr(DecodeDoc(SchemaOf(f.name), x.doc))
           [] OTHER -> [ok |-> TRUE, v |-> x.num]

\* field i stored when its value decoded to d; a value of another type fails
StoreDecoded(tp, doc, i, r, d) ==
    IF d.ok THEN UnmarshalFrom(tp, doc, i + 1, [r EXCEPT ![tp[i].name] = d.v])
    ELSE [ok |-> FALSE, v |-> r]

\* the fields from i on decoded into r
UnmarshalFrom(tp, doc, i, r) ==
    IF i > Len(tp) THEN [ok |-> TRUE, v |-> r]
    ELSE IF ~Persisted(tp[i]) \/ tp[i].key \notin DOMAIN doc
         THEN UnmarshalFrom(tp, doc, i + 1, r)
    ELSE StoreDecoded(tp, doc, i, r, DecodeValue(tp[i], doc[tp[i].key]))

\* into new(T): an unknown key, at any depth, or a value of another type fails
Unmarshal(tp, doc) ==
    IF UnknownKey(tp, doc) THEN [ok |-> FALSE, v |-> ZeroOf(tp)]
    ELSE UnmarshalFrom(tp, doc, 1, ZeroOf(tp))

\* ------------------------------------------------------------------------
\* Sync and Load
\* ------------------------------------------------------------------------

EmptyPathErr == [kind |-> "empty-config-path"]

WriteErr(p) == [kind |-> "failed-to-write-file", path |-> p]

ReadErr(p) == [kind |-> "read-file", path |-> p]

\* a path that is stored as it is given
ResolvePathKept(path) == path

\* `if path != "" && !filepath.IsAbs(path) { path = filepath.Abs(path) }`
ResolvePath(path) == IF path # "" /\ ~IsAbs(path) THEN Abs(path) ELSE path

\* the tree with ConfigPath and KubeconfigPath resolved
ResolvePaths(c) ==
    [c EXCEPT !.ConfigPath = ResolvePath(c.ConfigPath),
              !.KubeconfigPath = ResolvePath(c.KubeconfigPath)]

\* what unsafeSync returns when ioutil.WriteFile returned w
SyncResult(c, w) ==
    [cfg |-> c, fs |-> w.fs, err |-> IF w.ok THEN NoErr ELSE WriteErr(c.ConfigPath)]

\* yaml.Marshal(cfg) and ioutil.WriteFile(cfg.ConfigPath, d, 0600)
WriteConfig(c, fs) == SyncResult(c, WriteFile(fs, c.ConfigPath, Marshal(ConfigSchema, c)))

\* cfg.unsafeSync()
unsafeSync(c, fs) ==
    IF c.ConfigPath = "" THEN [cfg |-> c, fs |-> fs, err |-> EmptyPathErr]
    ELSE WriteConfig(ResolvePaths(c), fs)

\* the path Load stores in the tree it read
LoadedPath(p) == Abs(p)

\* a Load that returns the error of the re-save
LoadSyncedStrict(r) ==
    IF r.err # NoErr THEN [cfg |-> NilPtr, err |-> r.err, fs |-> r.fs, warn |-> r.err]
    ELSE [cfg |-> PtrTo(r.cfg), err |-> NoErr, fs |-> r.fs, warn |-> NoErr]

\* Load after cfg.unsafeSync() returned r: its error is only printed
LoadSynced(r) == [cfg |-> PtrTo(r.cfg), err |-> NoErr, fs |-> r.fs, warn |-> r.err]

\* Load after yaml.Unmarshal returned u: the mutex is made, ConfigPath is set
LoadDecoded(p, fs, u) ==
    IF ~u.ok THEN [cfg |-> NilPtr, err |-> DecodeErr(p), fs |-> fs, warn |-> NoErr]
    ELSE LoadSynced(unsafeSync([u.v EXCEPT !.mu = PtrTo("RWMutex"),
                                            !.ConfigPath = LoadedPath(p)], fs))

\* Load after ioutil.ReadFile returned d
LoadRead(p, fs, d) ==
    IF ~d.ok THEN [cfg |-> NilPtr, err |-> ReadErr(p), fs |-> fs, warn |-> NoErr]
    ELSE LoadDecoded(p, fs, Unmarshal(ConfigSchema, d.d))

\* Load(p): the tree (nil on an error), the error, the file system after the
\* re-save, and the re-save's error, which is only printed
Load(p, fs) == LoadRead(p, fs, ReadFile(fs, p))

\* how many variables an environment sets
MaxEnvVars == 2

\* ------------------------------------------------------------------------
\* the inputs of a run: the files it finds and the environment it is given
\* ------------------------------------------------------------------------

\* a file an earlier run saved from its working directory
SavedDoc ==
    Marshal(ConfigSchema,
            [NewDefault(<<>>) EXCEPT !.ClusterName = "saved", !.ConfigPath = "in.yaml",
                                     !.TotalNodes = 3])

\* a file written by hand: two root keys and one addon section
PartialDoc ==
    ("cluster_name" :> [str |-> "partial"]) @@ ("total_nodes" :> [num |-> 2])
    @@ ("add_on_jobs_pi" :> [doc |-> ("enable" :> [bool |-> TRUE])
                                     @@ ("completes" :> [num |-> 5])])

\* the same with a key Config does not have
UnknownKeyDoc == ("unexpected_field" :> [bool |-> TRUE]) @@ PartialDoc

\* a file with a key the addon record does not have, in an addon section
NestedUnknownKeyDoc ==
    ("cluster_name" :> [str |-> "nested"])
    @@ ("add_on_jobs_pi" :> [doc |-> ("enable" :> [bool |-> TRUE])
                                     @@ ("unexpected_field" :> [bool |-> TRUE])])

InitFiles ==
    ("/w/in.yaml" :> SavedDoc) @@ ("/w/part.yaml" :> PartialDoc)
    @@ ("/w/bad.yaml" :> UnknownKeyDoc) @@ ("/w/nested.yaml" :> NestedUnknownKeyDoc)
    @@ ("/w/ro.yaml" :> PartialDoc)

\* the paths Load is called with
LoadPaths ==
    {"in.yaml", "/w/./part.yaml", "bad.yaml", "nested.yaml", "ro.yaml", "missing.yaml"}

\* the variables an override run is given: name and value
OverrideEntries ==
    { <<"K8S_TESTER_PROMPT", "abc">>,
      <<"K8S_TESTER_CLUSTER_NAME", "mycluster">>,
      <<"K8S_TESTER_LOG_OUTPUTS", "stderr,a.log">>,
      <<"K8S_TESTER_TOTAL_NODES", "5">>,
      <<"K8S_TESTER_CLOUDWATCH_AGENT_ENABLE", "true">>,
      <<"K8S_TESTER_CLOUDWATCH_AGENT_ENABLE", "maybe">>,
      <<"K8S_TESTER_NLB_HELLO_WORLD_DEPLOYMENT_NODE_SELECTOR", "{\"a\":\"b\"}">>,
      <<"K8S_TESTER_NLB_HELLO_WORLD_DEPLOYMENT_NODE_SELECTOR", "a=b">>,
      <<"K8S_TESTER_JOBS_PI_COMPLETES", "10">>,
      <<"K8S_TESTER_JOBS_PI_COMPLETES", "abc">>,
      <<"K8S_TESTER_JOBS_ECHO_JOB_TYPE", "CronJob">>,
      <<"K8S_TESTER_CRON_JOBS_ECHO_ENABLE", "maybe">> }

\* the variables a persistence run is given
PathEntries ==
    { <<"K8S_TESTER_CONFIG_PATH", "cfg.yaml">>,
      <<"K8S_TESTER_CONFIG_PATH", "/w/./cfg.yaml">>,
      <<"K8S_TESTER_CONFIG_PATH", "nodir/cfg.yaml">>,
      <<"K8S_TESTER_KUBECONFIG_PATH", "kube/config">>,
      <<"K8S_TESTER_KUBECONFIG_PATH", "/home/u/.kube/config">>,
      <<"K8S_TESTER_CLUSTER_NAME", "mycluster">> }

VARIABLES
    env,    \* the process environment: variable name -> value
    rec,    \* the pointer to the record handed to parseEnvs
    cfg,    \* the *Config the caller holds: nil before NewDefault or Load
    files,  \* the file system: cleaned absolute path -> document
    saved,  \* whether the tree cfg points to has been loaded or saved with success
    ret,    \* the last operation and what it returned
    prev,   \* what the last operation started from
    sync,   \* the Sync calls in flight: the mutex, each caller's position and locals
    heap    \* the records of a run by address, where pointers are followed

vars == <<env, rec, cfg, files, saved, ret, prev, sync, heap>>

NoCall == [op |-> "none", err |-> NoErr]

\* how many goroutines call Sync on the tree, and how many times the tree is
\* edited between their calls
NumSyncers == 3

MaxEdits == 1

Syncers == 1..NumSyncers

\* no Sync call has started: the mutex is free
NoSync ==
    [mu |-> 0, pc |-> [p \in Syncers |-> "idle"], d |-> [p \in Syncers |-> <<>>],
     path |-> [p \in Syncers |-> ""], err |-> [p \in Syncers |-> NoErr], edits |-> 0]

\* the state an operation on the tree starts from
Before == [cfg |-> cfg, files |-> files, ret |-> ret]

\* os.Setenv before the run starts
Setenv(name, value) ==
    /\ ret.op = "none"
    /\ name \notin DOMAIN env
    /\ Cardinality(DOMAIN env) < MaxEnvVars
    /\ env' = (name :> value) @@ env
    /\ UNCHANGED <<heap, rec, cfg, files, saved, ret, prev, sync>>

\* a call of parseEnvs(ENV_PREFIX, rec)
ParseEnvsCall ==
    /\ ret.err # Panic
    /\ \E r \in {parseEnvs(ENV_PREFIX, RecordSchema, rec, env)} :
           /\ rec' = r.addOn
           /\ ret' = [op |-> "parseEnvs", err |-> r.err]
           /\ prev' = rec
    /\ UNCHANGED <<heap, env, cfg, files, saved, sync>>

\* cfg := NewDefault()
Build ==
    /\ cfg.isNil
    /\ cfg' = PtrTo(NewDefault(env))
    /\ ret' = [op |-> "NewDefault", err |-> NoErr]
    /\ prev' = Before
    /\ saved' = FALSE
    /\ UNCHANGED <<heap, env, rec, files, sync>>

\* cfg, err := Load(p): the caller keeps the tree it had when Load fails
LoadCall(p) ==
    /\ ret.err # Panic
    /\ \E r \in {Load(p, files)} :
           /\ cfg' = IF r.err = NoErr THEN r.cfg ELSE cfg
           /\ files' = r.fs
           /\ saved' = IF r.err = NoErr THEN TRUE ELSE saved
           /\ ret' = [op |-> "Load", err |-> r.err, path |-> p, tree |-> r.cfg,
                      warn |-> r.warn]
    /\ prev' = Before
    /\ UNCHANGED <<heap, env, rec, sync>>

\* err := cfg.UpdateFromEnvs(); a panic ends the process
UpdateCall ==
    /\ ~cfg.isNil
    /\ ret.err # Panic
    /\ \E r \in {UpdateFromEnvs(cfg.v, env)} :
           /\ cfg' = PtrTo(r.cfg)
           /\ ret' = [op |-> "UpdateFromEnvs", err |-> r.err]
    /\ prev' = Before
    /\ UNCHANGED <<heap, env, rec, files, saved, sync>>

\* err := cfg.Sync(), alone on the tree: nothing runs between Lock and Unlock
SyncCall ==
    /\ ~cfg.isNil
    /\ ret.err # Panic
    /\ \E r \in {unsafeSync(cfg.v, files)} :
           /\ cfg' = PtrTo(r.cfg)
           /\ files' = r.fs
           /\ saved' = (saved \/ r.err = NoErr)
           /\ ret' = [op |-> "Sync", err |-> r.err]
    /\ prev' = Before
    /\ UNCHANGED <<heap, env, rec, sync>>

\* parseEnvs on one record
InitParse ==
    /\ env = <<>>
    /\ rec \in InitRecords
    /\ cfg = NilPtr
    /\ files = <<>>
    /\ saved = FALSE
    /\ ret = NoCall
    /\ prev = rec
    /\ sync = NoSync
    /\ heap = <<>>

NextParse ==
    \/ \E x \in RecordEntries : Setenv(x.name, x.value)
    \/ ParseEnvsCall

SpecParse == InitParse /\ [][NextParse]_vars

\* a run: the environment is set, the tree is built or loaded, then overridden
\* and saved
Init ==
    /\ env = <<>>
    /\ rec = NilPtr
    /\ cfg = NilPtr
    /\ files = InitFiles
    /\ saved = FALSE
    /\ ret = NoCall
    /\ prev = [cfg |-> NilPtr, files |-> InitFiles, ret |-> NoCall]
    /\ sync = NoSync
    /\ heap = <<>>

\* the paths a run loads: an input file to start from, and afterwards the file
\* the tree it holds is saved to
ReloadPaths == IF cfg.isNil THEN LoadPaths ELSE {cfg.v.ConfigPath}

NextEnvs ==
    \/ \E x \in OverrideEntries : Setenv(x[1], x[2])
    \/ Build
    \/ \E p \in {"in.yaml", "/w/./part.yaml"} : cfg.isNil /\ LoadCall(p)
    \/ UpdateCall

SpecEnvs == Init /\ [][NextEnvs]_vars

Next ==
    \/ \E x \in PathEntries : Setenv(x[1], x[2])
    \/ Build
    \/ \E p \in ReloadPaths : LoadCall(p)
    \/ UpdateCall
    \/ SyncCall

Spec == Init /\ [][Next]_vars

\* ------------------------------------------------------------------------
\* UpdateFromEnvs on records held by address: cfg is the pointer the caller
\* holds, heap maps an address to the record there, and a pointer field of the
\* root holds nil or the address of an addon record.
\* ------------------------------------------------------------------------

\* the tree c laid out in memory: the root at address 1, the record of addon
\* slot i at address i + 1
HeapOf(c) ==
    [a \in {1} \cup {i + 1 : i \in {j \in 1..Len(AddOnOrder) : ~c[AddOnOrder[j]].isNil}} |->
        IF a = 1
        THEN [n \in DOMAIN c |->
                 IF n \notin AddOnSlots \/ c[n].isNil THEN c[n]
                 ELSE [isNil |-> FALSE,
                       addr |-> (CHOOSE i \in 1..Len(AddOnOrder) : AddOnOrder[i] = n) + 1]]
        ELSE c[AddOnOrder[a - 1]].v]

\* the record a pointer leads to
Deref(h, p) == IF p.isNil THEN NilPtr ELSE PtrTo(h[p.addr])

\* a pass that works on a copy of the record and returns the copy's address
StoreInCopy(h, p, v) ==
    [heap |-> ((20 + Cardinality(DOMAIN h)) :> v) @@ h,
     ptr |-> [isNil |-> FALSE, addr |-> 20 + Cardinality(DOMAIN h)]]

\* vv is reflect.ValueOf(addOn).Elem(): the Set calls write the record addOn
\* points to, and `return addOn, nil` hands the same pointer back
StoreAt(h, p, v) == [heap |-> [h EXCEPT ![p.addr] = v], ptr |-> p]

\* parseEnvs(pfx, addOn) on the pointer p: the memory afterwards, the pointer
\* returned (nil with an error) and the error
parseEnvsAt(pfx, tp, p, h, e) ==
    LET r == parseEnvs(pfx, tp, Deref(h, p), e)
        w == IF p.isNil THEN [heap |-> h, ptr |-> p] ELSE StoreAt(h, p, r.addOn.v)
    IN  [heap |-> w.heap, ptr |-> IF r.err = NoErr THEN w.ptr ELSE NilPtr, err |-> r.err]

\* the addon passes from slot i on, c being the receiver: `cfg.AddOnX = av`
\* stores the returned pointer in the slot
RECURSIVE UpdateAddOnsAt(_, _, _, _, _)
UpdateAddOnsAt(order, h, c, e, i) ==
    IF i > Len(order) THEN [heap |-> h, err |-> NoErr]
    ELSE LET r == parseEnvsAt(ENV_PREFIX \o AddOnEnv(order[i]) \o "_", AddOnSchema(order[i]),
                              h[c.addr][order[i]], h, e)
         IN  IF r.err # NoErr THEN [heap |-> r.heap, err |-> r.err]
             ELSE UpdateAddOnsAt(order, [r.heap EXCEPT ![c.addr][order[i]] = r.ptr], c, e,
                                 i + 1)

\* cfg.UpdateFromEnvs(): `cfg = av` makes the returned pointer the receiver of
\* the addon passes; the caller's pointer is not assigned
UpdateFromEnvsAt(h, c, e) ==
    LET r == parseEnvsAt(ENV_PREFIX, ConfigSchema, c, h, e)
    IN  IF r.err # NoErr THEN [heap |-> r.heap, err |-> r.err]
        ELSE UpdateAddOnsAt(AddOnOrder, r.heap, r.ptr, e, 1)

\* err := cfg.UpdateFromEnvs() on the tree in memory
UpdateAtCall ==
    /\ ret.err # Panic
    /\ \E r \in {UpdateFromEnvsAt(heap, cfg, env)} :
           /\ heap' = r.heap
           /\ ret' = [op |-> "UpdateFromEnvs", err |-> r.err]
    /\ prev' = heap
    /\ UNCHANGED <<env, rec, cfg, files, saved, sync>>

\* the caller holds a tree NewDefault built, or one Load read from a file with a
\* single addon section
InitRefs ==
    /\ env = <<>>
    /\ rec = NilPtr
    /\ cfg = [isNil |-> FALSE, addr |-> 1]
    /\ heap \in {HeapOf(NewDefault(<<>>)), HeapOf(Load("/w/./part.yaml", InitFiles).cfg.v)}
    /\ files = InitFiles
    /\ saved = FALSE
    /\ ret = NoCall
    /\ prev = <<>>
    /\ sync = NoSync

NextRefs ==
    \/ \E x \in OverrideEntries : Setenv(x[1], x[2])
    \/ UpdateAtCall

SpecRefs == InitRefs /\ [][NextRefs]_vars

\* ------------------------------------------------------------------------
\* Sync called from several goroutines on one tree. Each call is the steps of
\* Sync and unsafeSync; ioutil.WriteFile opens the file truncated and writes
\* the document in two parts, the root keys and then the addon sections.
\* ------------------------------------------------------------------------

\* the mutex can be taken whoever holds it
CanLockAlways(mu) == TRUE

\* sync.RWMutex.Lock returns when no one holds the mutex
CanLock(mu) == mu = 0

\* the keys of the addon sections of a document
SlotKeys == {FieldOf(ConfigSchema, slot).key : slot \in AddOnSlots}

\* the part of a document under some keys
Part(d, keys) == [k \in DOMAIN d \cap keys |-> d[k]]

RootPart(d) == Part(d, DOMAIN d \ SlotKeys)

SlotPart(d) == Part(d, SlotKeys)

Goto(p, label) == [sync EXCEPT !.pc[p] = label]

\* cfg.mu.Lock()
Lock(p) ==
    /\ sync.pc[p] = "idle"
    /\ CanLock(sync.mu)
    /\ sync' = [Goto(p, "check") EXCEPT !.mu = p]
    /\ UNCHANGED <<heap, env, rec, cfg, files, saved, ret, prev>>

\* if cfg.ConfigPath == "" { return errors.New("empty config path") }
CheckPath(p) ==
    /\ sync.pc[p] = "check"
    /\ sync' = IF cfg.v.ConfigPath = ""
               THEN [Goto(p, "unlock") EXCEPT !.err[p] = EmptyPathErr]
               ELSE Goto(p, "resolveConfig")
    /\ UNCHANGED <<heap, env, rec, cfg, files, saved, ret, prev>>

ResolveConfig(p) ==
    /\ sync.pc[p] = "resolveConfig"
    /\ cfg' = [cfg EXCEPT !.v.ConfigPath = ResolvePath(@)]
    /\ sync' = Goto(p, "resolveKube")
    /\ UNCHANGED <<heap, env, rec, files, saved, ret, prev>>

ResolveKube(p) ==
    /\ sync.pc[p] = "resolveKube"
    /\ cfg' = [cfg EXCEPT !.v.KubeconfigPath = ResolvePath(@)]
    /\ sync' = Goto(p, "marshal")
    /\ UNCHANGED <<heap, env, rec, files, saved, ret, prev>>

\* d, err := yaml.Marshal(cfg)
MarshalStep(p) ==
    /\ sync.pc[p] = "marshal"
    /\ sync' = [Goto(p, "open") EXCEPT !.d[p] = Marshal(ConfigSchema, cfg.v)]
    /\ UNCHANGED <<heap, env, rec, cfg, files, saved, ret, prev>>

\* ioutil.WriteFile(cfg.ConfigPath, d, 0600): the file is created or truncated
OpenFile(p) ==
    /\ sync.pc[p] = "open"
    /\ LET w == WriteFile(files, cfg.v.ConfigPath, <<>>)
       IN  /\ files' = w.fs
           /\ sync' = IF w.ok THEN [Goto(p, "write") EXCEPT !.path[p] = cfg.v.ConfigPath]
                      ELSE [Goto(p, "unlock") EXCEPT !.err[p] = WriteErr(cfg.v.ConfigPath)]
    /\ UNCHANGED <<heap, env, rec, cfg, saved, ret, prev>>

\* the root keys are written at the start of the file
WriteRoot(p) ==
    /\ sync.pc[p] = "write"
    /\ files' = [files EXCEPT ![Resolve(sync.path[p])] = RootPart(sync.d[p]) @@ SlotPart(@)]
    /\ sync' = Goto(p, "flush")
    /\ UNCHANGED <<heap, env, rec, cfg, saved, ret, prev>>

\* the addon sections are written after them, and the file is closed
WriteSlots(p) ==
    /\ sync.pc[p] = "flush"
    /\ files' = [files EXCEPT ![Resolve(sync.path[p])] = RootPart(@) @@ SlotPart(sync.d[p])]
    /\ sync' = [Goto(p, "unlock") EXCEPT !.err[p] = NoErr]
    /\ UNCHANGED <<heap, env, rec, cfg, saved, ret, prev>>

\* defer cfg.mu.Unlock(), and Sync returns
Unlock(p) ==
    /\ sync.pc[p] = "unlock"
    /\ sync' = [Goto(p, "done") EXCEPT !.mu = 0]
    /\ UNCHANGED <<heap, env, rec, cfg, files, saved, ret, prev>>

\* the tree changes between two calls: the cluster has one more node and the
\* jobs-pi addon one more completion
Edit ==
    /\ sync.mu = 0
    /\ sync.edits < MaxEdits
    /\ cfg' = [cfg EXCEPT !.v.TotalNodes = @ + 1, !.v.AddOnJobsPi.v.Completes = @ + 1]
    /\ sync' = [sync EXCEPT !.edits = @ + 1]
    /\ UNCHANGED <<heap, env, rec, files, saved, ret, prev>>

\* the paths of the trees that are saved
SyncPaths == {"cfg.yaml", "/w/in.yaml", "nodir/cfg.yaml", ""}

InitSync ==
    /\ env = <<>>
    /\ rec = NilPtr
    /\ \E path \in SyncPaths :
          cfg = PtrTo([NewDefault(<<>>) EXCEPT !.ConfigPath = path,
                                               !.KubeconfigPath = "kube/config"])
    /\ files = InitFiles
    /\ saved = FALSE
    /\ ret = NoCall
    /\ prev = [cfg |-> NilPtr, files |-> InitFiles, ret |-> NoCall]
    /\ sync = NoSync
    /\ heap = <<>>

NextSync ==
    \/ \E p \in Syncers :
          \/ Lock(p)
          \/ CheckPath(p)
          \/ ResolveConfig(p)
          \/ ResolveKube(p)
          \/ MarshalStep(p)
          \/ OpenFile(p)
          \/ WriteRoot(p)
          \/ WriteSlots(p)
          \/ Unlock(p)
    \/ Edit

SpecSync == InitSync /\ [][NextSync]_vars

\* ------------------------------------------------------------------------
\* parseEnvs on one record
\* ------------------------------------------------------------------------

RecordIndex(fieldName) ==
    CHOOSE i \in 1..Len(RecordSchema) : RecordSchema[i].name = fieldName

\* the field an error of parseEnvs is about
ErrField(err) ==
    IF err.kind = "map-not-supported" THEN err.field
    ELSE CHOOSE f \in RecordFieldNames \ {"mu", "Stopc", "lg"} : RecordVar(f) = err.env

\* where the last pass stopped: past the last field when it returned no error
StopIndex == IF ret.err = NoErr THEN Len(RecordSchema) + 1 ELSE RecordIndex(ErrField(ret.err))

\* the kinds the switch of parseEnvs has a case for, the mapping kind aside
SetKinds ==
    {"String", "Bool", "Int", "Int32", "Int64", "Uint", "Uint32", "Uint64", "Float32",
     "Float64", "Slice"}

\* the primitive kinds of the specification: integers of every width
PrimitiveKinds == SetKinds \cup {"Int8", "Int16", "Uint8", "Uint16"}

KindOf(fieldName) == RecordSchema[RecordIndex(fieldName)].kind

EntrySet(x) == x.name \in DOMAIN env /\ env[x.name] = x.value

\* C2 as stated: when a pass stops with an error at field i, field i and every
\* field declared after it hold their values from before the pass, and a field
\* declared before i differs only if its variable is set.
C2_StopLeavesRest ==
    (ret.op = "parseEnvs" /\ ret.err # NoErr) =>
        \A f \in RecordFieldNames :
            (RecordIndex(f) >= StopIndex \/ Getenv(env, RecordVar(f)) = "")
                => rec.v[f] = prev.v[f]

\* C4: a field whose variable is unset or empty holds, after a pass, the value
\* it held before it, whatever its kind and whatever else is set.
C4_NonClobber ==
    ret.op = "parseEnvs" =>
        \A f \in RecordFieldNames :
            Getenv(env, RecordVar(f)) = "" => rec.v[f] = prev.v[f]

\* a pass that wrote one field and left alone a set field whose variable is
\* set to the empty string
C4_Witness ==
    /\ ret.op = "parseEnvs"
    /\ ret.err = NoErr
    /\ "K8S_TESTER_CLUSTER_NAME" \in DOMAIN env
    /\ env["K8S_TESTER_CLUSTER_NAME"] = ""
    /\ rec.v.ClusterName = "k8s-2021-abc"
    /\ rec # prev

FieldIndex(tp, name) == CHOOSE i \in 1..Len(tp) : tp[i].name = name

\* the variable of a field of Config
RootVar(name) == ENV_PREFIX \o FieldOf(ConfigSchema, name).env

\* the variable of a field of an addon record
SlotVar(slot, name) ==
    ENV_PREFIX \o AddOnEnv(slot) \o "_" \o FieldOf(AddOnSchema(slot), name).env

\* the addon slots whose record has a read-only field, with that field
ReadOnlySlotFields ==
    UNION {{<<slot, AddOnSchema(slot)[i].name>> :
                i \in {j \in 1..Len(AddOnSchema(slot)) : AddOnSchema(slot)[j].readOnly}} :
            slot \in AddOnSlots}

\* what the pass over the fields of Config declared before a field returns
RootErrBefore(c, e, name) ==
    parseEnvs(ENV_PREFIX, SubSeq(ConfigSchema, 1, FieldIndex(ConfigSchema, name) - 1),
              PtrTo(c), e).err

UpdateReturned == ret.op = "UpdateFromEnvs"

\* C1 as stated: whenever K8S_TESTER_TOTAL_NODES is set to a non-empty value,
\* UpdateFromEnvs returns the read-only error naming that variable, and
\* TotalNodes holds the value it held before the pass.
C1_ReadOnlyRejected ==
    (UpdateReturned /\ Getenv(env, RootVar("TotalNodes")) # "") =>
        /\ ret.err = ReadOnlyErr(RootVar("TotalNodes"), Getenv(env, RootVar("TotalNodes")))
        /\ cfg.v.TotalNodes = prev.cfg.v.TotalNodes

\* C1 amended: no pass changes a read-only field; a pass with the variable of
\* a read-only field set never returns success; and for TotalNodes the error
\* is the read-only error naming K8S_TESTER_TOTAL_NODES unless a field of
\* Config declared before TotalNodes fails, whose error is then returned.
C1_ReadOnlyKeptAndRejectedWhenReached ==
    UpdateReturned =>
        /\ cfg.v.TotalNodes = prev.cfg.v.TotalNodes
        /\ \A x \in ReadOnlySlotFields :
              /\ cfg.v[x[1]].isNil = prev.cfg.v[x[1]].isNil
              /\ ~cfg.v[x[1]].isNil => cfg.v[x[1]].v[x[2]] = prev.cfg.v[x[1]].v[x[2]]
              /\ Getenv(env, SlotVar(x[1], x[2])) # "" => ret.err # NoErr
        /\ Getenv(env, RootVar("TotalNodes")) # "" =>
              ret.err = IF RootErrBefore(prev.cfg.v, env, "TotalNodes") # NoErr
                        THEN RootErrBefore(prev.cfg.v, env, "TotalNodes")
                        ELSE ReadOnlyErr(RootVar("TotalNodes"),
                                         Getenv(env, RootVar("TotalNodes")))

\* K8S_TESTER_TOTAL_NODES=5 on a loaded tree with three nodes: the pass has
\* returned the read-only error after it wrote the cluster name
C1_Witness ==
    /\ UpdateReturned
    /\ Getenv(env, "K8S_TESTER_TOTAL_NODES") = "5"
    /\ ret.err = ReadOnlyErr("K8S_TESTER_TOTAL_NODES", "5")
    /\ cfg.v.TotalNodes = 3
    /\ prev.cfg.v.ClusterName = "saved"
    /\ cfg.v.ClusterName = "mycluster"

\* the records of a tree in the order of UpdateFromEnvs: 0 is the root
Records == 0..Len(AddOnOrder)

\* what record k of a tree holds: for the root, its fields other than the slots
RecordOf(c, k) ==
    IF k = 0 THEN [n \in FieldNames(ConfigSchema) \ AddOnSlots |-> c[n]]
    ELSE c[AddOnOrder[k]]

\* the pass of parseEnvs over record k alone
RecordPass(c, e, k) ==
    IF k = 0 THEN parseEnvs(ENV_PREFIX, ConfigSchema, PtrTo(c), e)
    ELSE parseEnvs(ENV_PREFIX \o AddOnEnv(AddOnOrder[k]) \o "_", AddOnSchema(AddOnOrder[k]),
                   c[AddOnOrder[k]], e)

\* record k with all of its matched overrides applied
Applied(c, e, k) ==
    IF k = 0 THEN RecordOf(RecordPass(c, e, 0).addOn.v, 0) ELSE RecordPass(c, e, k).addOn

\* the records whose own pass does not succeed under the environment
FailingRecords(c, e) == {k \in Records : RecordPass(c, e, k).err # NoErr}

Earliest(S) == CHOOSE k \in S : \A j \in S : k <= j

\* C3 as stated: UpdateFromEnvs returns the error of the earliest record, in
\* the order root, cloudwatch-agent, ..., cron-jobs-echo, that has a failing
\* variable; every record after it is unmodified; every record before it has
\* its matched overrides applied; with no failing record all are applied.
C3_EarliestRecordError ==
    UpdateReturned =>
        LET c == prev.cfg.v
            F == FailingRecords(c, env)
        IN  IF F = {}
            THEN ret.err = NoErr /\ \A k \in Records : RecordOf(cfg.v, k) = Applied(c, env, k)
            ELSE /\ ret.err = RecordPass(c, env, Earliest(F)).err
                 /\ ret.err # Panic
                 /\ \A k \in Records :
                       /\ k > Earliest(F) => RecordOf(cfg.v, k) = RecordOf(c, k)
                       /\ k < Earliest(F) => RecordOf(cfg.v, k) = Applied(c, env, k)

\* the same with the abnormal end of a pass taken as the outcome of its record
C3_EarliestRecordOutcome ==
    UpdateReturned =>
        LET c == prev.cfg.v
            F == FailingRecords(c, env)
        IN  IF F = {}
            THEN ret.err = NoErr /\ \A k \in Records : RecordOf(cfg.v, k) = Applied(c, env, k)
            ELSE /\ ret.err = RecordPass(c, env, Earliest(F)).err
                 /\ \A k \in Records :
                       /\ k > Earliest(F) => RecordOf(cfg.v, k) = RecordOf(c, k)
                       /\ k < Earliest(F) => RecordOf(cfg.v, k) = Applied(c, env, k)

\* C10: UpdateFromEnvs applied to the tree a pass has left, under the same
\* environment, leaves that tree as it is and ends as the pass ended.
C10_UpdateIdempotent ==
    UpdateReturned => UpdateFromEnvs(cfg.v, env) = [cfg |-> cfg.v, err |-> ret.err]

\* a pass that replaced the log outputs and then stopped at an addon's variable
C10_Witness ==
    /\ UpdateReturned
    /\ ret.err = ParseErr("maybe", "Enable", "K8S_TESTER_CLOUDWATCH_AGENT_ENABLE")
    /\ prev.cfg.v.LogOutputs = SliceOf(<<"stderr">>)
    /\ cfg.v.LogOutputs = SliceOf(<<"stderr", "a.log">>)

\* ------------------------------------------------------------------------
\* Sync and Load
\* ------------------------------------------------------------------------

SyncReturned == ret.op = "Sync"

\* C6: after a Sync that returned nil, ConfigPath is absolute, KubeconfigPath
\* is absolute unless empty, both denote the location the paths held before
\* the call denote, and the file at ConfigPath holds the serialization of the
\* tree as the call left it.
C6_SyncResolvesAndWrites ==
    (SyncReturned /\ ret.err = NoErr) =>
        /\ IsAbs(cfg.v.ConfigPath)
        /\ Resolve(cfg.v.ConfigPath) = Resolve(prev.cfg.v.ConfigPath)
        /\ IF prev.cfg.v.KubeconfigPath = "" THEN cfg.v.KubeconfigPath = ""
           ELSE /\ IsAbs(cfg.v.KubeconfigPath)
                /\ Resolve(cfg.v.KubeconfigPath) = Resolve(prev.cfg.v.KubeconfigPath)
        /\ ReadFile(files, cfg.v.ConfigPath) = [ok |-> TRUE, d |-> Marshal(ConfigSchema, cfg.v)]
        /\ \A n \in FieldNames(ConfigSchema) \ {"ConfigPath", "KubeconfigPath"} :
              cfg.v[n] = prev.cfg.v[n]

\* a Sync that resolved cfg.yaml and kube/config against the working
\* directory and wrote a file that was not there
C6_Witness ==
    /\ SyncReturned
    /\ ret.err = NoErr
    /\ prev.cfg.v.ConfigPath = "cfg.yaml"
    /\ cfg.v.ConfigPath = "/w/cfg.yaml"
    /\ prev.cfg.v.KubeconfigPath = "kube/config"
    /\ cfg.v.KubeconfigPath = "/w/kube/config"
    /\ ~ReadFile(prev.files, "/w/cfg.yaml").ok
    /\ ReadFile(files, "/w/cfg.yaml").ok

\* C7 as stated: once the tree has been loaded or saved with success,
\* ConfigPath is an absolute path in every later state.
C7_ConfigPathStaysAbsolute == (~cfg.isNil /\ saved) => IsAbs(cfg.v.ConfigPath)

\* the fields of a record type that a document holds
TaggedFields(tp) == {tp[i].name : i \in {j \in 1..Len(tp) : Persisted(tp[j])}}

\* two trees are equal in every serialization-tagged field, addon records
\* compared field by field
TaggedEqual(a, b) ==
    \A n \in TaggedFields(ConfigSchema) :
        IF n \in AddOnSlots
        THEN /\ a[n].isNil = b[n].isNil
             /\ ~a[n].isNil => \A m \in TaggedFields(AddOnSchema(n)) : a[n].v[m] = b[n].v[m]
        ELSE a[n] = b[n]

\* a Load of the ConfigPath of the tree right after a Sync of it returned nil
LoadedAfterSync ==
    /\ ret.op = "Load"
    /\ ret.err = NoErr
    /\ prev.ret.op = "Sync"
    /\ prev.ret.err = NoErr
    /\ ret.path = prev.cfg.v.ConfigPath

\* C8 as stated: the tree Load returns right after a successful Sync, from the
\* ConfigPath Sync left, equals the saved tree in every tagged field.
C8_RoundTrip == LoadedAfterSync => TaggedEqual(ret.tree.v, prev.cfg.v)

\* the round trip of a tree whose ConfigPath is in its shortest form
C8_RoundTripOfCleanPath ==
    (LoadedAfterSync /\ Clean(prev.cfg.v.ConfigPath) = prev.cfg.v.ConfigPath)
        => TaggedEqual(ret.tree.v, prev.cfg.v)

\* ------------------------------------------------------------------------
\* concurrent Sync calls
\* ------------------------------------------------------------------------

\* the caller is between Lock and Unlock, at a step of unsafeSync
InUnsafeSync(p) ==
    sync.pc[p] \in {"check", "resolveConfig", "resolveKube", "marshal", "open", "write", "flush"}

AllReturned == \A p \in Syncers : sync.pc[p] = "done"

\* C9: at most one call is inside unsafeSync; a call holds the mutex from
\* before the path check until it unlocks; and when every call has returned
\* and one of them returned nil, the file at ConfigPath is the whole document
\* one of the calls that returned nil serialized.
C9_SyncExclusive ==
    /\ \A p, q \in Syncers : (InUnsafeSync(p) /\ InUnsafeSync(q)) => p = q
    /\ \A p \in Syncers : (InUnsafeSync(p) \/ sync.pc[p] = "unlock") => sync.mu = p
    /\ (AllReturned /\ \E p \in Syncers : sync.err[p] = NoErr /\ sync.d[p] # <<>>) =>
          \E p \in Syncers :
              /\ sync.err[p] = NoErr
              /\ ReadFile(files, cfg.v.ConfigPath) = [ok |-> TRUE, d |-> sync.d[p]]

\* two calls have returned nil with different documents, the tree having been
\* edited between them, and the file holds the second one's
C9_Witness ==
    /\ AllReturned
    /\ \A p \in Syncers : sync.err[p] = NoErr
    /\ \E p, q \in Syncers :
          /\ sync.d[p] # sync.d[q]
          /\ sync.d[p] # <<>>
          /\ sync.d[q] # <<>>
          /\ ReadFile(files, "/w/cfg.yaml").d = sync.d[q]
          /\ sync.d[q] = Marshal(ConfigSchema, cfg.v)

\* ------------------------------------------------------------------------
\* the mapping kind (SpecParse)
\* ------------------------------------------------------------------------

\* the entries that set the variable of a mapping field the last pass reached
MapEntriesReached ==
    {x \in RecordEntries : /\ EntrySet(x) /\ x.value # ""
                           /\ KindOf(x.field) = "Map"
                           /\ RecordIndex(x.field) <= StopIndex}

\* what is stated for one such entry: an object literal (a valid entry)
\* becomes the field's mapping, another value is a coercion error at the
\* field, a field outside the whitelist is an error and is not written
MapOverrideAsClaimed(x) ==
    IF x.field \in {"Tags", "NodeSelector", "DeploymentNodeSelector",
                    "DeploymentNodeSelector2048"}
    THEN IF x.valid THEN rec.v[x.field] = x.lit /\ StopIndex # RecordIndex(x.field)
         ELSE ret.err = ParseErr(x.value, x.field, x.name)
    ELSE ret.err = MapKindErr(x.field) /\ rec.v[x.field] = prev.v[x.field]

\* C13: a mapping field is overridable only under the names Tags, NodeSelector,
\* DeploymentNodeSelector and DeploymentNodeSelector2048: for a pass that
\* reaches the field, a JSON object literal replaces the field's mapping, a
\* value that is not a JSON object fails the pass with a coercion error, and a
\* set variable of a mapping field of another name fails the pass with the
\* unsupported-kind error and leaves the field as it was.
C13_MapOverride ==
    ret.op = "parseEnvs" => \A x \in MapEntriesReached : MapOverrideAsClaimed(x)

\* the same for every value but the JSON literal null
C13_MapOverrideExceptNull ==
    ret.op = "parseEnvs" =>
        \A x \in MapEntriesReached : x.value # "null" => MapOverrideAsClaimed(x)

\* what the pass does with null: no error, and the field is the nil map
C13_NullClearsMap ==
    ret.op = "parseEnvs" =>
        \A x \in MapEntriesReached :
            (x.value = "null" /\ x.field \in MapFieldNames)
                => rec.v[x.field] = NilMap /\ StopIndex # RecordIndex(x.field)

\* ------------------------------------------------------------------------
\* Load: unknown keys, and the re-save (Spec)
\* ------------------------------------------------------------------------

LoadReturned == ret.op = "Load"

\* whether Load found the file it was given, and the document it read
LoadFound == LoadReturned /\ ret.path # "" /\ Resolve(ret.path) \in DOMAIN prev.files

LoadedDoc == prev.files[Resolve(ret.path)]

\* a document with a key its struct type does not have: at the top, or in the
\* section of an addon
HasStrayKey(doc) ==
    \/ \E k \in DOMAIN doc : k \notin KeysFrom(ConfigSchema)
    \/ \E slot \in AddOnSlots :
         \E k \in {FieldOf(ConfigSchema, slot).key} \cap DOMAIN doc :
            /\ DOMAIN doc[k] = {"doc"}
            /\ \E j \in DOMAIN doc[k].doc : j \notin KeysFrom(AddOnSchema(slot))

\* C11: Load of a file with a key the schema does not have, at the top level or
\* under an addon key, fails with an error, returns no tree (nil), and writes
\* nothing: the files are as they were, the re-save is not reached (no warning),
\* and the caller keeps what it held.
C11_UnknownKeyFailsLoad ==
    (LoadFound /\ HasStrayKey(LoadedDoc)) =>
        /\ ret.err # NoErr
        /\ ret.tree = NilPtr
        /\ ret.warn = NoErr
        /\ files = prev.files
        /\ cfg = prev.cfg

\* Load has returned from a file whose jobs-pi section has a stray key
C11_Witness ==
    /\ LoadFound
    /\ ret.path = "nested.yaml"
    /\ "unexpected_field" \in DOMAIN LoadedDoc["add_on_jobs_pi"].doc
    /\ ret.tree = NilPtr

\* C12: when Load has read and decoded the file and the re-save that follows
\* fails, the failure is only a warning: Load returns nil as its error and the
\* decoded tree, whose ConfigPath is the absolute form of the path Load was
\* given; no file has changed.
C12_ResaveFailureIsWarning ==
    (LoadReturned /\ ret.warn # NoErr) =>
        /\ ret.err = NoErr
        /\ ~ret.tree.isNil
        /\ cfg = ret.tree
        /\ ret.tree.v.ConfigPath = Abs(ret.path)
        /\ IsAbs(ret.tree.v.ConfigPath)
        /\ \A n \in TaggedFields(ConfigSchema) \ {"ConfigPath", "KubeconfigPath"} :
              ret.tree.v[n] = Unmarshal(ConfigSchema, LoadedDoc).v[n]
        /\ files = prev.files

\* Load has returned from the file it may not write: the re-save failed
C12_Witness ==
    /\ LoadFound
    /\ Resolve(ret.path) \in ReadOnlyFiles
    /\ ret.warn = WriteErr(Abs(ret.path))
    /\ ret.tree.v.ClusterName = "partial"

\* ------------------------------------------------------------------------
\* UpdateFromEnvs and the references the caller holds (SpecRefs)
\* ------------------------------------------------------------------------

\* the overrides of OverrideEntries a field accepts: the variable, its value,
\* the addon slot of the field ("" for the root), the field and what it holds
\* once the value is stored
Override(name, value, slot, field, lit) ==
    [name |-> name, value |-> value, slot |-> slot, field |-> field, lit |-> lit]

RefEntries ==
    { Override("K8S_TESTER_CLUSTER_NAME", "mycluster", "", "ClusterName", "mycluster"),
      Override("K8S_TESTER_LOG_OUTPUTS", "stderr,a.log", "", "LogOutputs",
               SliceOf(<<"stderr", "a.log">>)),
      Override("K8S_TESTER_CLOUDWATCH_AGENT_ENABLE", "true", "AddOnCloudwatchAgent",
               "Enable", TRUE),
      Override("K8S_TESTER_NLB_HELLO_WORLD_DEPLOYMENT_NODE_SELECTOR", "{\"a\":\"b\"}",
               "AddOnNLBHelloWorld", "DeploymentNodeSelector", MapOf("a" :> "b")),
      Override("K8S_TESTER_JOBS_PI_COMPLETES", "10", "AddOnJobsPi", "Completes", 10) }

\* the caller reads the override through the pointer it holds
Observed(x) ==
    IF x.slot = "" THEN heap[cfg.addr][x.field] = x.lit
    ELSE /\ ~heap[cfg.addr][x.slot].isNil
         /\ heap[heap[cfg.addr][x.slot].addr][x.field] = x.lit

\* C14: after UpdateFromEnvs returns nil, the Config the caller holds shows
\* every root-level and every addon-level override, each addon slot holds the
\* pointer it held before the call, and no record was allocated: no override
\* went to a copy.
C14_SingleReference ==
    (UpdateReturned /\ ret.err = NoErr) =>
        /\ DOMAIN heap = DOMAIN prev
        /\ \A slot \in AddOnSlots : heap[cfg.addr][slot] = prev[cfg.addr][slot]
        /\ \A x \in RefEntries : (x.name \in DOMAIN env /\ env[x.name] = x.value) => Observed(x)

\* UpdateFromEnvs has returned nil after a root-level and an addon-level
\* override, and the caller sees both
C14_Witness ==
    /\ UpdateReturned
    /\ ret.err = NoErr
    /\ DOMAIN env = {"K8S_TESTER_CLUSTER_NAME", "K8S_TESTER_JOBS_PI_COMPLETES"}
    /\ env["K8S_TESTER_JOBS_PI_COMPLETES"] = "10"
    /\ prev[cfg.addr].ClusterName # "mycluster"
    /\ heap[cfg.addr].ClusterName = "mycluster"
    /\ prev[prev[cfg.addr].AddOnJobsPi.addr].Completes # 10
    /\ heap[heap[cfg.addr].AddOnJobsPi.addr].Completes = 10

\* ------------------------------------------------------------------------
\* how UpdateFromEnvs ends (SpecEnvs)
\* ------------------------------------------------------------------------

\* C15: UpdateFromEnvs ends by returning nil or an error value, never by a
\* panic, on every tree NewDefault built or Load read and under every
\* environment: in particular on a tree read from a file without an addon's
\* section when a variable of that addon is set.
C15_UpdateAlwaysReturns == UpdateReturned => ret.err # Panic

\* the same on the trees whose addon slots all hold a record
C15_ReturnsWhenEverySlotIsSet ==
    (UpdateReturned /\ \A slot \in AddOnSlots : ~prev.cfg.v[slot].isNil) => ret.err # Panic

\* a panic is the pass on a nil slot that meets a set variable of a field that
\* is not read-only
C15_PanicsOnlyOnNilSlot ==
    (UpdateReturned /\ ret.err = Panic) =>
        \E slot \in AddOnSlots :
            /\ prev.cfg.v[slot].isNil
            /\ \E i \in 1..Len(AddOnSchema(slot)) :
                  /\ ~AddOnSchema(slot)[i].readOnly
                  /\ Getenv(env, SlotVar(slot, AddOnSchema(slot)[i].name)) # ""

====
